---- MODULE Spec2Model ----
(***************************************************************************)
(* A model of createHttpLink (src/src/CapacitorHttpLink.ts): the handler   *)
(* that turns one GraphQL operation into one Http.request per subscription *)
(* of the returned Observable, and rewriteURIForGET.  The second source    *)
(* file, src/unnamed/part_000, holds the same handler over Plugins.Http.   *)
(*                                                                         *)
(* Strings the code inspects character by character (the URI, the query    *)
(* parameters) are sequences of one-character strings.  Strings the code   *)
(* only copies or compares as a whole (header names and values, methods,   *)
(* error names) are TLA+ strings.                                          *)
(***************************************************************************)
EXTENDS Integers, Sequences, FiniteSets, TLC

VARIABLES
  link,       \* the options captured by createHttpLink(linkOptions)
  operation,  \* the operation the handler was invoked with (NoOperation before)
  request,    \* what the handler returned: fromError(...) or the Observable's closure
  subs,       \* the subscriptions of the returned Observable, in subscribe order
  calls       \* the configs Http.request was called with, in call order

vars == <<link, operation, request, subs, calls>>

\* Bounds of the model.
MaxURILen == 3
MaxSubs == 2

(***************************************************************************)
(* JavaScript values                                                       *)
(***************************************************************************)

\* A JS value as far as JSON.stringify and truthiness look at it.  An
\* "object" holds a sequence of [k, v] properties; a "cycle" property value
\* refers back to the enclosing object.
Undefined == [t |-> "undefined", n |-> 0, f |-> <<>>]
Num(n) == [t |-> "number", n |-> n, f |-> <<>>]
Cycle == [t |-> "cycle", n |-> 0, f |-> <<>>]
Obj(f) == [t |-> "object", n |-> 0, f |-> f]
Prop(k, v) == [k |-> k, v |-> v]

\* An optional string: undefined, or a string (possibly empty).
NoString == [t |-> "undefined", s |-> <<>>]
Str(s) == [t |-> "string", s |-> s]

\* JS truthiness of a value / of an optional string.
Truthy(v) == \/ v.t = "object"
             \/ v.t = "cycle"
             \/ v.t = "number" /\ v.n # 0
TruthyString(o) == o.t = "string" /\ o.s # <<>>

\* {...a, ...b} on maps from names to values.
Spread(a, b) ==
  [k \in DOMAIN a \cup DOMAIN b |-> IF k \in DOMAIN b THEN b[k] ELSE a[k]]
NoHeaders == [k \in {} |-> ""]

RECURSIVE Concat(_)
Concat(ss) == IF ss = <<>> THEN <<>> ELSE Head(ss) \o Concat(Tail(ss))

\* Array.prototype.join
RECURSIVE Join(_, _)
Join(ss, sep) ==
  IF ss = <<>> THEN <<>>
  ELSE IF Len(ss) = 1 THEN Head(ss)
  ELSE Head(ss) \o sep \o Join(Tail(ss), sep)

\* String.prototype.indexOf(c) for a one-character c, 1-based; 0 is JS's -1.
RECURSIVE IndexFrom(_, _, _)
IndexFrom(s, c, i) ==
  IF i > Len(s) THEN 0
  ELSE IF s[i] = c THEN i
  ELSE IndexFrom(s, c, i + 1)
indexOf(s, c) == IndexFrom(s, c, 1)

\* The decimal digits of a natural number.
RECURSIVE Digits(_)
Digits(n) ==
  LET d == <<"0", "1", "2", "3", "4", "5", "6", "7", "8", "9">>[(n % 10) + 1]
  IN IF n < 10 THEN <<d>> ELSE Digits(n \div 10) \o <<d>>

\* JSON.stringify: [ok, s].  It throws (ok = FALSE) on a circular structure.
RECURSIVE Stringify(_)
RECURSIVE StringifyProps(_)
Stringify(v) ==
  CASE v.t = "number" -> [ok |-> TRUE, s |-> Digits(v.n)]
    [] v.t = "object" ->
         LET m == StringifyProps(v.f)
         IN IF m.ok THEN [ok |-> TRUE, s |-> <<"{">> \o m.s \o <<"}">>]
            ELSE [ok |-> FALSE, s |-> <<>>]
    [] OTHER -> [ok |-> FALSE, s |-> <<>>]
StringifyProps(f) ==
  IF f = <<>> THEN [ok |-> TRUE, s |-> <<>>]
  ELSE LET h == Stringify(Head(f).v)
           r == StringifyProps(Tail(f))
       IN IF ~h.ok \/ ~r.ok THEN [ok |-> FALSE, s |-> <<>>]
          ELSE [ok |-> TRUE,
                s |-> <<"\"">> \o Head(f).k \o <<"\"", ":">> \o h.s
                      \o (IF Tail(f) = <<>> THEN <<>> ELSE <<",">>) \o r.s]

\* serializeFetchParameter(p, label): JSON.stringify, or a thrown parse error.
serializeFetchParameter(p, label) ==
  LET r == Stringify(p)
  IN [ok |-> r.ok, s |-> r.s, label |-> label]

\* encodeURIComponent on one character: unreserved characters are kept, the
\* others become the %XX of their UTF-8 byte.
EncodeChar(c) ==
  CASE c = "{" -> <<"%", "7", "B">>
    [] c = "}" -> <<"%", "7", "D">>
    [] c = "\"" -> <<"%", "2", "2">>
    [] c = ":" -> <<"%", "3", "A">>
    [] c = "," -> <<"%", "2", "C">>
    [] c = "?" -> <<"%", "3", "F">>
    [] c = "#" -> <<"%", "2", "3">>
    [] c = "&" -> <<"%", "2", "6">>
    [] c = "=" -> <<"%", "3", "D">>
    [] c = "/" -> <<"%", "2", "F">>
    [] c = " " -> <<"%", "2", "0">>
    [] OTHER -> <<c>>
encodeURIComponent(s) == Concat([i \in 1..Len(s) |-> EncodeChar(s[i])])

(***************************************************************************)
(* Values that travel on the stream                                        *)
(***************************************************************************)

\* The values the handler passes to observer.next / observer.error: the
\* response's data, a rejection err (name, and result when hasResult), the
\* err.result of a rejection, or the parse error of serializeFetchParameter.
\* errors and data are tags: "undefined", "null", "array", "object".
NoValue == [tag |-> "none", name |-> "", hasResult |-> FALSE,
            errors |-> "undefined", data |-> "undefined"]
Response(d) == [tag |-> "response", name |-> "", hasResult |-> FALSE,
                errors |-> "undefined", data |-> d]
DataOf(response) == [tag |-> "data", name |-> "", hasResult |-> FALSE,
                     errors |-> "undefined", data |-> response.data]
Err(name, hasResult, errors, data) ==
  [tag |-> "err", name |-> name, hasResult |-> hasResult,
   errors |-> errors, data |-> data]
ResultOf(err) == [tag |-> "result", name |-> "", hasResult |-> TRUE,
                  errors |-> err.errors, data |-> err.data]
ParseError(label) == [tag |-> "parseError", name |-> label, hasResult |-> FALSE,
                      errors |-> "undefined", data |-> "undefined"]

TruthyTag(x) == x \notin {"undefined", "null"}

NextEv(v) == [type |-> "next", value |-> v]
ErrorEv(v) == [type |-> "error", value |-> v]
CompleteEv == [type |-> "complete", value |-> NoValue]

(***************************************************************************)
(* Building the request                                                    *)
(***************************************************************************)

KeyQuery == <<"q", "u", "e", "r", "y">>
KeyOperationName ==
  <<"o", "p", "e", "r", "a", "t", "i", "o", "n", "N", "a", "m", "e">>
KeyVariables == <<"v", "a", "r", "i", "a", "b", "l", "e", "s">>
KeyExtensions == <<"e", "x", "t", "e", "n", "s", "i", "o", "n", "s">>

\* apollo-link-http-common's fallbackHttpConfig.
fallbackHttpConfig ==
  [http |-> [includeQuery |-> TRUE, includeExtensions |-> FALSE],
   headers |-> [k \in {"accept", "content-type"} |->
                  IF k = "accept" THEN "*/*" ELSE "application/json"],
   options |-> [k \in {"method"} |-> "POST"]]

\* A body without the optional keys, as selectHttpOptionsAndBody first
\* builds it: { operationName, variables }.
Body(operationName, variables) ==
  [hasQuery |-> FALSE, query |-> <<>>,
   operationName |-> operationName, variables |-> variables,
   hasExtensions |-> FALSE, extensions |-> Undefined]

\* selectURI(operation, uri): context.uri when truthy, else the link's uri
\* (already defaulted to '/graphql' by the destructuring).
selectURI(op, uri) ==
  IF TruthyString(op.context.uri) THEN op.context.uri.s ELSE uri

\* const linkConfig = { http: { includeExtensions }, options, headers }
linkConfig(l) ==
  [http |-> [k \in {"includeExtensions"} |-> l.includeExtensions],
   options |-> l.fetchOptions,
   headers |-> l.headers]

\* clientAwarenessHeaders: set from context.clientAwareness when present,
\* each header only when its value is truthy.
clientAwarenessHeaders(context) ==
  LET ca == context.clientAwareness
      named == IF ca.present /\ ca.name # ""
               THEN [k \in {"apollographql-client-name"} |-> ca.name]
               ELSE NoHeaders
  IN IF ca.present /\ ca.version # ""
     THEN Spread(named, [k \in {"apollographql-client-version"} |-> ca.version])
     ELSE named

\* const contextHeaders = { ...clientAwarenessHeaders, ...context.headers }
contextHeadersSwapped(context) ==
  Spread(context.headers, clientAwarenessHeaders(context))
contextHeaders(context) ==
  Spread(clientAwarenessHeaders(context), context.headers)

contextConfig(context) ==
  [http |-> context.http,
   options |-> context.fetchOptions,
   headers |-> contextHeaders(context)]

\* selectHttpOptionsAndBody's configs.forEach: options and headers are spread
\* layer over layer, and so is http.
RECURSIVE MergeConfigs(_, _)
MergeConfigs(acc, configs) ==
  IF configs = <<>> THEN acc
  ELSE LET config == Head(configs)
       IN MergeConfigs(
            [options |-> Spread(acc.options, config.options),
             headers |-> Spread(acc.headers, config.headers),
             http |-> Spread(acc.http, config.http)],
            Tail(configs))

\* selectHttpOptionsAndBody(operation, fallbackConfig, ...configs): the merged
\* options (with their headers), and the body { operationName, variables },
\* plus extensions and query when the merged http flags say so.
selectHttpOptionsAndBody(op, fallbackConfig, configs) ==
  LET m == MergeConfigs(fallbackConfig, configs)
      b0 == Body(op.operationName, op.variables)
      b1 == IF m.http["includeExtensions"]
            THEN [b0 EXCEPT !.hasExtensions = TRUE, !.extensions = op.extensions]
            ELSE b0
      b2 == IF m.http["includeQuery"]
            THEN [b1 EXCEPT !.hasQuery = TRUE, !.query = op.query]
            ELSE b1
  IN [options |-> [method |-> m.options["method"], headers |-> m.headers],
      body |-> b2]

\* d.kind === 'OperationDefinition' && d.operation === 'mutation'
definitionIsMutation(d) ==
  d.kind = "OperationDefinition" /\ d.operation = "mutation"

\* The method after "If requested, set method to GET if there are no
\* mutations".
MethodIgnoringMutations(l, op, method) ==
  IF l.useGETForQueries THEN "GET" ELSE method
SelectMethod(l, op, method) ==
  IF /\ l.useGETForQueries
     /\ ~\E i \in 1..Len(op.definitions) : definitionIsMutation(op.definitions[i])
  THEN "GET"
  ELSE method

\* queryParams.push(`${key}=${encodeURIComponent(value)}`)
addQueryParam(queryParams, key, value) ==
  Append(queryParams, key \o <<"=">> \o encodeURIComponent(value))

\* String.prototype.substr(start) and substr(0, length), start 1-based here.
substrFrom(s, start) == SubSeq(s, start, Len(s))
substrTo(s, length) == SubSeq(s, 1, length)

\* The reconstruction of the URI with the added query params.
ReconstructLastFragment(chosenURI, queryParams) ==
  LET hashes == {i \in 1..Len(chosenURI) : chosenURI[i] = "#"}
      fragmentStart == IF hashes = {} THEN 0
                       ELSE CHOOSE i \in hashes : \A j \in hashes : j <= i
      fragment == IF fragmentStart # 0 THEN substrFrom(chosenURI, fragmentStart)
                  ELSE <<>>
      preFragment == IF fragmentStart # 0
                     THEN substrTo(chosenURI, fragmentStart - 1)
                     ELSE chosenURI
      queryParamsPrefix == IF indexOf(preFragment, "?") = 0 THEN <<"?">>
                           ELSE <<"&">>
  IN preFragment \o queryParamsPrefix \o Join(queryParams, <<"&">>) \o fragment
ReconstructURI(chosenURI, queryParams) ==
  LET fragmentStart == indexOf(chosenURI, "#")
      fragment == IF fragmentStart # 0 THEN substrFrom(chosenURI, fragmentStart)
                  ELSE <<>>
      preFragment == IF fragmentStart # 0
                     THEN substrTo(chosenURI, fragmentStart - 1)
                     ELSE chosenURI
      queryParamsPrefix == IF indexOf(preFragment, "?") = 0 THEN <<"?">>
                           ELSE <<"&">>
  IN preFragment \o queryParamsPrefix \o Join(queryParams, <<"&">>) \o fragment

\* rewriteURIForGET(chosenURI, body): { newURI }, or { parseError } as soon
\* as variables or extensions cannot be serialized.
rewriteURIForGET(chosenURI, body) ==
  LET p1 == IF body.hasQuery THEN addQueryParam(<<>>, KeyQuery, body.query)
            ELSE <<>>
      p2 == IF TruthyString(body.operationName)
            THEN addQueryParam(p1, KeyOperationName, body.operationName.s)
            ELSE p1
      serializedVariables == serializeFetchParameter(body.variables, "Variables map")
      p3 == IF Truthy(body.variables)
            THEN addQueryParam(p2, KeyVariables, serializedVariables.s)
            ELSE p2
      serializedExtensions == serializeFetchParameter(body.extensions, "Extensions map")
      p4 == IF Truthy(body.extensions)
            THEN addQueryParam(p3, KeyExtensions, serializedExtensions.s)
            ELSE p3
  IN IF Truthy(body.variables) /\ ~serializedVariables.ok
     THEN [ok |-> FALSE, parseError |-> ParseError("Variables map"), newURI |-> <<>>]
     ELSE IF Truthy(body.extensions) /\ ~serializedExtensions.ok
     THEN [ok |-> FALSE, parseError |-> ParseError("Extensions map"), newURI |-> <<>>]
     ELSE [ok |-> TRUE, parseError |-> NoValue,
           newURI |-> ReconstructURI(chosenURI, p4)]

(***************************************************************************)
(* The handler: new ApolloLink(operation => ...)                           *)
(***************************************************************************)

NoBody == Body(NoString, Undefined)
NoRequest ==
  [kind |-> "none", error |-> NoValue, chosenURI |-> <<>>, method |-> "",
   hasBody |-> FALSE, body |-> NoBody, headers |-> NoHeaders]

\* fromError(parseError): an Observable whose subscriber only calls
\* observer.error(parseError).
fromError(parseError) == [NoRequest EXCEPT !.kind = "fromError", !.error = parseError]

\* What the handler returns for an operation: fromError(parseError), or the
\* Observable closing over chosenURI and options.
HandlerResultIgnoringParseError(l, op) ==
  LET sel == selectHttpOptionsAndBody(
               op, fallbackHttpConfig, <<linkConfig(l), contextConfig(op.context)>>)
      method == SelectMethod(l, op, sel.options.method)
      rewritten == rewriteURIForGET(selectURI(op, l.uri), sel.body)
      observable == [NoRequest EXCEPT !.kind = "observable", !.method = method,
                                      !.headers = sel.options.headers]
  IN IF method = "GET"
     THEN [observable EXCEPT !.chosenURI = rewritten.newURI]
     ELSE [observable EXCEPT !.chosenURI = selectURI(op, l.uri),
                             !.hasBody = TRUE, !.body = sel.body]
HandlerResult(l, op) ==
  LET sel == selectHttpOptionsAndBody(
               op, fallbackHttpConfig, <<linkConfig(l), contextConfig(op.context)>>)
      method == SelectMethod(l, op, sel.options.method)
      rewritten == rewriteURIForGET(selectURI(op, l.uri), sel.body)
      observable == [NoRequest EXCEPT !.kind = "observable", !.method = method,
                                      !.headers = sel.options.headers]
  IN IF method = "GET"
     THEN IF ~rewritten.ok THEN fromError(rewritten.parseError)
          ELSE [observable EXCEPT !.chosenURI = rewritten.newURI]
     ELSE [observable EXCEPT !.chosenURI = selectURI(op, l.uri),
                             !.hasBody = TRUE, !.body = sel.body]

\* The config of Http.request({ url, method, data, headers }).
TransportConfig(r) ==
  [url |-> r.chosenURI, method |-> r.method,
   hasData |-> r.hasBody, data |-> r.body,
   headers |-> Spread(r.headers,
                      [k \in {"Content-Type"} |-> "application/json"])]

(***************************************************************************)
(* The Observable and its subscriptions                                    *)
(***************************************************************************)

\* A subscription: the promise of its Http.request ("none" for fromError),
\* what the promise settled with, whether the subscription is closed, when
\* the subscriber unsubscribed ("no", "before" or "after" the promise
\* settled), and the events the subscriber has observed.
NewSub(promise) ==
  [promise |-> promise, settledWith |-> NoValue, closed |-> FALSE,
   cancelled |-> "no", events |-> <<>>]

\* observer.next / error / complete of a subscription observer: nothing
\* reaches the subscriber of a closed subscription, and error and complete
\* close it.
DeliverAlways(sub, ev, closes) ==
  [sub EXCEPT !.events = Append(@, ev), !.closed = closes]
Deliver(sub, ev, closes) ==
  IF sub.closed THEN sub
  ELSE [sub EXCEPT !.events = Append(@, ev), !.closed = closes]
ObserverNext(sub, v) == Deliver(sub, NextEv(v), FALSE)
ObserverError(sub, v) == Deliver(sub, ErrorEv(v), TRUE)
ObserverComplete(sub) == Deliver(sub, CompleteEv, TRUE)

\* .then(result => { observer.next(result.data); observer.complete(); })
OnResolveNoComplete(sub, result) == ObserverNext(sub, DataOf(result))
OnResolve(sub, result) == ObserverComplete(ObserverNext(sub, DataOf(result)))

\* .catch(err => { ... })
OnRejectAlwaysNext(sub, err) ==
  IF err.name = "AbortError" THEN sub
  ELSE ObserverError(IF err.hasResult THEN ObserverNext(sub, ResultOf(err)) ELSE sub,
                     err)
OnRejectNoAbortCheck(sub, err) ==
  LET s1 == IF err.hasResult /\ TruthyTag(err.errors) /\ TruthyTag(err.data)
            THEN ObserverNext(sub, ResultOf(err))
            ELSE sub
  IN ObserverError(s1, err)
OnReject(sub, err) ==
  IF err.name = "AbortError" THEN sub
  ELSE LET s1 == IF err.hasResult /\ TruthyTag(err.errors) /\ TruthyTag(err.data)
                 THEN ObserverNext(sub, ResultOf(err))
                 ELSE sub
       IN ObserverError(s1, err)

\* The subscriber function of the returned Observable, run on each subscribe:
\* the calls made so far, plus this subscription's Http.request.
CallsOnSubscribeTwice(r, cs) == cs \o <<TransportConfig(r), TransportConfig(r)>>
CallsOnSubscribe(r, cs) == Append(cs, TransportConfig(r))

\* The subscriber function of fromError(parseError): no call is made.
CallsOnFromError(r, cs) == cs

(***************************************************************************)
(* Actions                                                                 *)
(***************************************************************************)

\* The link's handler is invoked with an operation.
Handler(op) ==
  /\ request.kind = "none"
  /\ operation' = op
  /\ request' = HandlerResult(link, op)
  /\ UNCHANGED <<link, subs, calls>>

\* The returned Observable is subscribed to.
Subscribe ==
  /\ request.kind # "none"
  /\ Len(subs) < MaxSubs
  /\ IF request.kind = "fromError"
     THEN /\ subs' = Append(subs, ObserverError(NewSub("none"), request.error))
          /\ calls' = CallsOnFromError(request, calls)
     ELSE /\ subs' = Append(subs, NewSub("pending"))
          /\ calls' = CallsOnSubscribe(request, calls)
  /\ UNCHANGED <<link, operation, request>>

\* The Http.request of subscription i resolves with a response.
Resolve(i, response) ==
  /\ subs[i].promise = "pending"
  /\ subs' = [subs EXCEPT ![i] =
                OnResolve([@ EXCEPT !.promise = "resolved", !.settledWith = response],
                          response)]
  /\ UNCHANGED <<link, operation, request, calls>>

\* The Http.request of subscription i rejects with err.
Reject(i, err) ==
  /\ subs[i].promise = "pending"
  /\ subs' = [subs EXCEPT ![i] =
                OnReject([@ EXCEPT !.promise = "rejected", !.settledWith = err], err)]
  /\ UNCHANGED <<link, operation, request, calls>>

\* The subscriber unsubscribes from subscription i: the subscription is
\* closed and the cleanup function, () => {}, runs.
Unsubscribe(i) ==
  /\ ~subs[i].closed
  /\ subs' = [subs EXCEPT ![i] =
                [@ EXCEPT !.closed = TRUE,
                          !.cancelled = IF subs[i].promise = "pending" THEN "before"
                                        ELSE "after"]]
  /\ UNCHANGED <<link, operation, request, calls>>

(***************************************************************************)
(* Inputs                                                                  *)
(***************************************************************************)

NoOptions == [k \in {} |-> ""]
NoFlags == [k \in {} |-> TRUE]
Method(m) == [k \in {"method"} |-> m]
\* uri = '/graphql', the default of the destructuring.
DefaultURI == <<"/", "g", "r", "a", "p", "h", "q", "l">>

Link(uri, includeExtensions, useGETForQueries, fetchOptions, headers) ==
  [uri |-> uri, includeExtensions |-> includeExtensions,
   useGETForQueries |-> useGETForQueries, fetchOptions |-> fetchOptions,
   headers |-> headers]

NoClientAwareness == [present |-> FALSE, name |-> "", version |-> ""]
ClientAwareness(name, version) == [present |-> TRUE, name |-> name, version |-> version]
Context(uri, clientAwareness, headers, fetchOptions, http) ==
  [uri |-> uri, clientAwareness |-> clientAwareness, headers |-> headers,
   fetchOptions |-> fetchOptions, http |-> http]
DefaultContext == Context(NoString, NoClientAwareness, NoHeaders, NoOptions, NoFlags)

Def(kind, op) == [kind |-> kind, operation |-> op]
QueryDef == Def("OperationDefinition", "query")
MutationDef == Def("OperationDefinition", "mutation")
SubscriptionDef == Def("OperationDefinition", "subscription")
FragmentDef == Def("FragmentDefinition", "undefined")

Operation(definitions, query, operationName, variables, extensions, context) ==
  [definitions |-> definitions, query |-> query, operationName |-> operationName,
   variables |-> variables, extensions |-> extensions, context |-> context]
NoOperation == Operation(<<>>, <<>>, NoString, Undefined, Undefined, DefaultContext)

QueryText == <<"{", "a", "}">>
EmptyObject == Obj(<<>>)
OneField == Obj(<<Prop(<<"x">>, Num(1))>>)
Circular == Obj(<<Prop(<<"x">>, Cycle)>>)

\* All maps from a subset of names to vals.
Maps(names, vals) == UNION {[d -> vals] : d \in SUBSET names}

\* All strings over alphabet of length at most n.
Strings(alphabet, n) == UNION {[1..k -> alphabet] : k \in 0..n}

\* What Http.request can settle with.
Responses == {Response("object")}
Rejections ==
  {Err(name, r[1], r[2], r[3]) :
     name \in {"Error", "AbortError"},
     r \in {<<FALSE, "undefined", "undefined">>,
            <<TRUE, "array", "undefined">>,
            <<TRUE, "undefined", "object">>,
            <<TRUE, "array", "null">>,
            <<TRUE, "array", "object">>}}

\* The links and operations of the stream specification.
StreamLinks ==
  {Link(DefaultURI, ie, ug, NoOptions, NoHeaders) : ie \in BOOLEAN, ug \in BOOLEAN}
StreamOperations ==
  {Operation(ds, QueryText, Str(<<"Q">>), v, e,
             Context(NoString, NoClientAwareness, NoHeaders, fo, NoFlags)) :
     ds \in {<<QueryDef>>, <<QueryDef, MutationDef>>},
     v \in {EmptyObject, Circular},
     e \in {EmptyObject, Circular},
     fo \in {NoOptions, Method("GET")}}

\* The links and operations of the GET-serialization specification.
GETLinks ==
  {Link(uri, ie, TRUE, NoOptions, NoHeaders) :
     uri \in Strings({"h", "?", "#"}, MaxURILen), ie \in BOOLEAN}
GETOperations ==
  {Operation(<<QueryDef>>, QueryText, name, v, e,
             Context(uri, NoClientAwareness, NoHeaders, NoOptions, http)) :
     name \in {NoString, Str(<<>>), Str(<<"Q", "?">>)},
     v \in {Undefined, EmptyObject, OneField, Circular},
     e \in {Undefined, OneField, Circular},
     uri \in {NoString, Str(<<"c", "?", "#">>)},
     http \in {NoFlags, [k \in {"includeQuery"} |-> FALSE]}}

\* The links and operations of the configuration specification.
ConfigLinks ==
  {Link(DefaultURI, FALSE, ug, fo, hs) :
     ug \in BOOLEAN,
     fo \in {NoOptions, Method("PUT")},
     hs \in Maps({"accept", "Content-Type", "apollographql-client-name"}, {"link"})}
ConfigOperations ==
  {Operation(ds, QueryText, NoString, EmptyObject, Undefined,
             Context(NoString, ca, hs, fo, NoFlags)) :
     ds \in {<<QueryDef>>, <<MutationDef>>, <<QueryDef, MutationDef>>,
             <<FragmentDef, QueryDef>>, <<SubscriptionDef>>},
     ca \in {NoClientAwareness, ClientAwareness("app", "1.0"),
             ClientAwareness("app", ""), ClientAwareness("", "1.0")},
     hs \in Maps({"Content-Type", "apollographql-client-name", "authorization"},
                 {"context"}),
     fo \in {NoOptions, Method("DELETE"), Method("GET")}}

(***************************************************************************)
(* Specifications                                                          *)
(***************************************************************************)

InitWith(links) ==
  /\ link \in links
  /\ operation = NoOperation
  /\ request = NoRequest
  /\ subs = <<>>
  /\ calls = <<>>

\* One operation on a link, with its stream subscribed, settled and
\* unsubscribed in any order.
Init == InitWith(StreamLinks)
Next ==
  \/ \E op \in StreamOperations : Handler(op)
  \/ Subscribe
  \/ \E i \in 1..Len(subs) : \E response \in Responses : Resolve(i, response)
  \/ \E i \in 1..Len(subs) : \E err \in Rejections : Reject(i, err)
  \/ \E i \in 1..Len(subs) : Unsubscribe(i)
Spec == Init /\ [][Next]_vars

\* rewriteURIForGET over the URIs and bodies: the handler on a GET link.
InitGET == InitWith(GETLinks)
NextGET == \E op \in GETOperations : Handler(op)
SpecGET == InitGET /\ [][NextGET]_vars

\* The merge of the configuration layers: the handler and the Http.request
\* of a subscription.
InitConfig == InitWith(ConfigLinks)
NextConfig ==
  \/ \E op \in ConfigOperations : Handler(op)
  \/ Subscribe
SpecConfig == InitConfig /\ [][NextConfig]_vars

(***************************************************************************)
(* What the claims speak of                                                *)
(***************************************************************************)

Invoked == request.kind # "none"
Range(s) == {s[i] : i \in 1..Len(s)}

\* The operation has no mutation among its top-level definitions.
NoMutation ==
  \A i \in 1..Len(operation.definitions) :
    ~(operation.definitions[i].kind = "OperationDefinition"
      /\ operation.definitions[i].operation = "mutation")

\* The method of the merged transport options: the context's, else the
\* link's, else POST.
MergedMethod ==
  IF "method" \in DOMAIN operation.context.fetchOptions
  THEN operation.context.fetchOptions["method"]
  ELSE IF "method" \in DOMAIN link.fetchOptions
  THEN link.fetchOptions["method"]
  ELSE "POST"

ExpectedMethod ==
  IF link.useGETForQueries /\ NoMutation THEN "GET" ELSE MergedMethod

\* Extensions are part of the body: the context's flag, else the link's.
ExtensionsIncluded ==
  IF "includeExtensions" \in DOMAIN operation.context.http
  THEN operation.context.http["includeExtensions"]
  ELSE link.includeExtensions

\* A value JSON cannot encode: an object that refers to itself.
NotSerializable(v) ==
  v.t = "object" /\ \E i \in 1..Len(v.f) : v.f[i].v.t = "cycle"
SerializationFails ==
  \/ NotSerializable(operation.variables)
  \/ ExtensionsIncluded /\ NotSerializable(operation.extensions)

\* Subscription i was still subscribed when its transport call settled.
LiveAtSettle(i) == subs[i].cancelled # "before"

(***************************************************************************)
(* C1 - C6, C8: the stream                                                 *)
(***************************************************************************)

\* C1: a subscriber that is still subscribed when its transport call
\* resolves with a response observes exactly Next(response.data) and then
\* Complete, never an Error; while the call is pending it has observed
\* nothing, and nothing is added after the Complete.
C1_ResolveEmitsNextThenComplete ==
  \A i \in 1..Len(subs) :
    /\ subs[i].promise = "pending" => subs[i].events = <<>>
    /\ (subs[i].promise = "resolved" /\ LiveAtSettle(i)) =>
         /\ Len(subs[i].events) = 2
         /\ subs[i].events[1].type = "next"
         /\ subs[i].events[1].value.tag = "data"
         /\ subs[i].events[1].value.data = subs[i].settledWith.data
         /\ subs[i].events[2].type = "complete"

C1_Witness ==
  \E i \in 1..Len(subs) :
    /\ subs[i].promise = "resolved"
    /\ subs[i].cancelled = "no"
    /\ subs[i].settledWith = Response("object")
    /\ Len(subs[i].events) = 2

\* C2: a subscriber that is still subscribed when its transport call rejects
\* with an err that is not an abort observes exactly one Error(err), last,
\* and no Complete; before it one Next(err.result) when err.result carries
\* both errors and data, and nothing otherwise.
C2_RejectEmitsError ==
  \A i \in 1..Len(subs) :
    (subs[i].promise = "rejected" /\ LiveAtSettle(i)
       /\ subs[i].settledWith.name # "AbortError") =>
      LET err == subs[i].settledWith
          partial == err.hasResult /\ err.errors = "array" /\ err.data = "object"
      IN subs[i].events =
           IF partial THEN <<NextEv(ResultOf(err)), ErrorEv(err)>>
           ELSE <<ErrorEv(err)>>

C2_Witness ==
  \E i \in 1..Len(subs) :
    /\ subs[i].promise = "rejected"
    /\ subs[i].cancelled = "no"
    /\ subs[i].settledWith = Err("Error", TRUE, "array", "object")
    /\ Len(subs[i].events) = 2

\* C3 as stated: at most one transport call per operation, over every
\* sequence of subscribe, settle and dispose events.
C3_AtMostOneCall == Len(calls) <= 1

\* C3 amended: the stream of an operation issues exactly one transport call
\* per subscription (none for a stream made by fromError), so settling and
\* disposing never issue a call and there is no retry.
C3_OneCallPerSubscription ==
  Len(calls) = IF request.kind = "observable" THEN Len(subs) ELSE 0

C3_Witness ==
  /\ Len(subs) = 2
  /\ subs[1].promise = "rejected"
  /\ subs[1].settledWith.name = "Error"
  /\ subs[2].cancelled = "before"
  /\ subs[2].promise = "resolved"
  /\ Len(calls) = 2

\* C4: when the method is GET and serializing variables or extensions
\* fails, every subscriber observes exactly one Error carrying the parse
\* error, no Next and no Complete, and Http.request is never called.
C4_GETSerializationFailure ==
  (Invoked /\ ExpectedMethod = "GET" /\ SerializationFails) =>
    /\ request.kind = "fromError"
    /\ request.error.tag = "parseError"
    /\ calls = <<>>
    /\ \A i \in 1..Len(subs) : subs[i].events = <<ErrorEv(request.error)>>

C4_Witness ==
  /\ Invoked
  /\ ExpectedMethod = "GET"
  /\ ~NotSerializable(operation.variables)
  /\ NotSerializable(operation.extensions)
  /\ Len(subs) = 2
  /\ subs[2].events = <<ErrorEv(ParseError("Extensions map"))>>
  /\ calls = <<>>

\* C5: a subscriber whose transport call rejects with an err named
\* 'AbortError' observes no event, whatever else err carries.
C5_AbortIsSilent ==
  \A i \in 1..Len(subs) :
    (subs[i].promise = "rejected" /\ subs[i].settledWith.name = "AbortError") =>
      subs[i].events = <<>>

C5_Witness ==
  \E i \in 1..Len(subs) :
    /\ subs[i].promise = "rejected"
    /\ subs[i].cancelled = "no"
    /\ subs[i].settledWith = Err("AbortError", TRUE, "array", "object")
    /\ subs[i].events = <<>>

\* C6: a subscriber that unsubscribed before its transport call settled has
\* observed no event, also after the call resolved or rejected.
C6_NoEventAfterDispose ==
  \A i \in 1..Len(subs) :
    subs[i].cancelled = "before" => subs[i].events = <<>>

C6_Witness ==
  \E i \in 1..Len(subs) : \E j \in 1..Len(subs) :
    /\ subs[i].cancelled = "before"
    /\ subs[i].promise = "resolved"
    /\ subs[i].events = <<>>
    /\ subs[j].cancelled = "before"
    /\ subs[j].settledWith = Err("Error", TRUE, "array", "object")
    /\ subs[j].events = <<>>

\* C8 as stated: when the method is not GET and the body cannot be
\* serialized, the stream ends in an Error for every subscriber and no
\* transport call is made.
C8_POSTSerializationFailure ==
  (Invoked /\ ExpectedMethod # "GET" /\ SerializationFails) =>
    /\ calls = <<>>
    /\ \A i \in 1..Len(subs) :
         /\ Len(subs[i].events) = 1
         /\ subs[i].events[1].type = "error"

(***************************************************************************)
(* C7, C9: the merged configuration                                        *)
(***************************************************************************)

\* C7: the method of the outgoing request is GET whenever useGETForQueries
\* is true and the operation has no mutation among its top-level
\* definitions, and in every other case the method of the merged transport
\* options, which is POST unless the link or the context sets one.
C7_MethodSelection ==
  /\ request.kind = "observable" => request.method = ExpectedMethod
  /\ \A i \in 1..Len(calls) : calls[i].method = ExpectedMethod

C7_Witness ==
  /\ link.useGETForQueries
  /\ link.fetchOptions = Method("PUT")
  /\ operation.definitions = <<QueryDef, MutationDef>>
  /\ operation.context.fetchOptions = NoOptions
  /\ Len(calls) = 1
  /\ calls[1].method = "PUT"

\* The four header layers, lowest precedence first: the built-in fallback
\* headers, the link's headers, the headers derived from
\* context.clientAwareness, and context.headers.
DerivedAwarenessHeaders ==
  LET ca == operation.context.clientAwareness
      value(h) == IF h = "apollographql-client-name" THEN ca.name ELSE ca.version
  IN [h \in {x \in {"apollographql-client-name", "apollographql-client-version"} :
               ca.present /\ value(x) # ""} |-> value(h)]
HeaderLayers ==
  <<fallbackHttpConfig.headers, link.headers, DerivedAwarenessHeaders,
    operation.context.headers>>
HeaderNames == UNION {DOMAIN HeaderLayers[n] : n \in 1..4} \cup {"Content-Type"}
Defining(h) == {n \in 1..4 : h \in DOMAIN HeaderLayers[n]}
Highest(h) == CHOOSE n \in Defining(h) : \A m \in Defining(h) : m <= n

\* Header h of the call's config, when a layer defines it, is the one of the
\* highest layer defining it.
FromHighestLayer(config, h) ==
  Defining(h) # {} =>
    /\ h \in DOMAIN config.headers
    /\ config.headers[h] = HeaderLayers[Highest(h)][h]

\* Header h of the call's config is absent when no layer defines it.
OnlyFromLayers(config, h) ==
  Defining(h) = {} => h \notin DOMAIN config.headers

\* C9 as stated: every header handed to the transport comes from the
\* highest-precedence layer, among the four, that defines it.
C9_HeadersAreFourLayerFold ==
  \A i \in 1..Len(calls) : \A h \in HeaderNames : FromHighestLayer(calls[i], h)

\* C9 amended: every header other than 'Content-Type' handed to the
\* transport comes from the highest-precedence layer, among the four, that
\* defines it (and from nowhere else), and 'Content-Type' is always
\* 'application/json', whatever the layers say.
C9_HeadersFoldThenContentType ==
  \A i \in 1..Len(calls) :
    /\ \A h \in HeaderNames \ {"Content-Type"} :
         FromHighestLayer(calls[i], h) /\ OnlyFromLayers(calls[i], h)
    /\ "Content-Type" \in DOMAIN calls[i].headers
    /\ calls[i].headers["Content-Type"] = "application/json"

C9_Witness ==
  /\ Len(calls) = 1
  /\ operation.context.clientAwareness = ClientAwareness("app", "1.0")
  /\ "apollographql-client-name" \in DOMAIN operation.context.headers
  /\ "apollographql-client-name" \in DOMAIN link.headers
  /\ calls[1].headers["apollographql-client-name"] = "context"
  /\ calls[1].headers["apollographql-client-version"] = "1.0"
  /\ calls[1].headers["accept"] = "link"

(***************************************************************************)
(* C10: rewriteURIForGET                                                   *)
(***************************************************************************)

\* The URI and the body rewriteURIForGET is given.
BaseURI == selectURI(operation, link.uri)
GivenBody ==
  selectHttpOptionsAndBody(
    operation, fallbackHttpConfig,
    <<linkConfig(link), contextConfig(operation.context)>>).body

\* The parameters present on the body, in the order query, operationName,
\* variables, extensions; variables and extensions as JSON.
PresentParams ==
  LET b == GivenBody
      all == <<[on |-> b.hasQuery, k |-> KeyQuery, v |-> b.query],
               [on |-> b.operationName.t = "string" /\ Len(b.operationName.s) > 0,
                k |-> KeyOperationName, v |-> b.operationName.s],
               [on |-> b.variables.t = "object", k |-> KeyVariables,
                v |-> Stringify(b.variables).s],
               [on |-> b.extensions.t = "object", k |-> KeyExtensions,
                v |-> Stringify(b.extensions).s]>>
      IsOn(p) == p.on
      present == SelectSeq(all, IsOn)
  IN [n \in 1..Len(present) |->
        present[n].k \o <<"=">> \o encodeURIComponent(present[n].v)]

\* C10: for a body that serializes, the new URI is the part of the URI before
\* its first '#', then '?' when that part holds no '?' and '&' otherwise,
\* then the present parameters joined by '&', then the fragment from the
\* first '#' on, unchanged.
C10_GETURILayout ==
  (request.kind = "observable" /\ request.method = "GET") =>
    \E k \in 0..Len(BaseURI) :
      LET pre == SubSeq(BaseURI, 1, k)
          fragment == SubSeq(BaseURI, k + 1, Len(BaseURI))
      IN /\ "#" \notin Range(pre)
         /\ fragment = <<>> \/ fragment[1] = "#"
         /\ request.chosenURI =
              pre \o (IF "?" \in Range(pre) THEN <<"&">> ELSE <<"?">>)
                  \o Join(PresentParams, <<"&">>) \o fragment

C10_Witness ==
  /\ request.kind = "observable"
  /\ request.method = "GET"
  /\ link.uri = <<"?", "#", "#">>
  /\ operation.context.uri = NoString
  /\ Len(PresentParams) = 4
  /\ SubSeq(request.chosenURI, 1, 8) = <<"?", "&", "q", "u", "e", "r", "y", "=">>
  /\ SubSeq(request.chosenURI, Len(request.chosenURI) - 2, Len(request.chosenURI))
       = <<"D", "#", "#">>

====
